---- MODULE Spec2Model ----
(***************************************************************************)
(* A model of the spiminator emulator: the raw-word engine `Computer` of   *)
(* src/src/emulator.rs (run loop, decode, execute, register accessors),   *)
(* under Spec, and the pre-decoded engine `Cpu` of src/src/lib.rs, under   *)
(* SpecCpu.  Under SpecCpu regs and pc are the fields of Cpu, program is   *)
(* the sequence of decoded instructions its caller passes, one per call of *)
(* Cpu::try_handle_insn, and ctl is "cpu" between calls.                    *)
(*                                                                         *)
(* A 32-bit word (a register value or an instruction word) is the pair     *)
(* <<hi, lo>> of its two 16-bit halves, hi = bits [31:16], lo = bits       *)
(* [15:0]; every operation below is exact 32-bit arithmetic on that pair.  *)
(* A u32 has both halves in 0 .. 2^16 - 1.  An i32 is the pair whose upper  *)
(* half is signed, in -2^15 .. 2^15 - 1: its value is hi * 2^16 + lo.       *)
(***************************************************************************)
EXTENDS Integers, Sequences, FiniteSets, TLC

VARIABLES
    regs,             \* Computer.regs : [u32; 32]
    program,          \* Computer.program : Vec<Insn>
    pc,               \* Computer.pc : usize, an index into program
    mem,              \* Computer.mem : HashMap<u32, u32>
    exit,             \* the local `exit` of Computer::run
    ctl,              \* where Computer::run is: "loop", "returned", "panicked"
    result,           \* what Computer::run returned (NoRes while it runs)
    overflow_checks,  \* build profile: are arithmetic overflow checks compiled in
    executed,         \* history: the indices try_handle_insn was called on, in order
    last              \* history: the last try_handle_insn call, state before and result

vars == <<regs, program, pc, mem, exit, ctl, result, overflow_checks, executed, last>>

----------------------------------------------------------------------------
(* Bounds of the model *)

\* longest program of the run-level initial states
MaxLen == 3

----------------------------------------------------------------------------
(* 32-bit words as pairs of halves *)

Half == 2 ^ 16
HalfMax == Half - 1
SignBit == 2 ^ 15

W(hi, lo) == <<hi, lo>>
Word0 == W(0, 0)
Small(n) == W(0, n)

\* the sign bit (bit 31) of a u32
Neg(a) == a[1] >= SignBit

U32ToI32Saturating(u) == IF u[1] >= SignBit THEN W(SignBit - 1, HalfMax) ELSE u
\* transmute::<u32, i32>: the i32 with the same 32 bits
TransmuteToI32(u) == W(u[1] - Half * (u[1] \div SignBit), u[2])
\* transmute::<&mut u32, &mut i32>, stored through: the u32 with the same 32 bits
TransmuteToU32(i) == W(i[1] % Half, i[2])

RECURSIVE BitOp(_, _, _, _)
\* bitwise and/or/xor of the low n bits of a and b
BitOp(op, a, b, n) ==
    IF n = 0 THEN 0
    ELSE LET x == a % 2
             y == b % 2
             z == CASE op = "and" -> IF x = 1 /\ y = 1 THEN 1 ELSE 0
                    [] op = "or"  -> IF x = 1 \/ y = 1 THEN 1 ELSE 0
                    [] op = "xor" -> IF x # y THEN 1 ELSE 0
         IN  z + 2 * BitOp(op, a \div 2, b \div 2, n - 1)

BitAnd(a, b) == W(BitOp("and", a[1], b[1], 16), BitOp("and", a[2], b[2], 16))
BitOr(a, b)  == W(BitOp("or", a[1], b[1], 16), BitOp("or", a[2], b[2], 16))
BitXor(a, b) == W(BitOp("xor", a[1], b[1], 16), BitOp("xor", a[2], b[2], 16))
BitNot(a)    == W(HalfMax - a[1], HalfMax - a[2])

\* a + b + cin on 32 bits: the wrapped sum and the carry out of bit 31
AddCarry(a, b, cin) ==
    LET lo == a[2] + b[2] + cin
        hi == a[1] + b[1] + (lo \div Half)
    IN  [val |-> W(hi % Half, lo % Half), carry |-> hi \div Half]

\* u32::overflowing_add: wrapped sum, overflow = carry out
OverflowingAddU(a, b) ==
    LET s == AddCarry(a, b, 0)
    IN  [val |-> s.val, overflow |-> s.carry = 1]

\* u32::overflowing_sub: a + ~b + 1, overflow = borrow (no carry out)
OverflowingSubU(a, b) ==
    LET s == AddCarry(a, BitNot(b), 1)
    IN  [val |-> s.val, overflow |-> s.carry = 0]

OverflowingAddICarry(a, b) ==
    LET s == AddCarry(TransmuteToU32(a), TransmuteToU32(b), 0)
    IN  [val |-> TransmuteToI32(s.val), overflow |-> s.carry = 1]
\* i32::overflowing_add: the two's-complement adder on the operands' bits;
\* overflow = operands of one sign, sum of the other
OverflowingAddI(a, b) ==
    LET x == TransmuteToU32(a)
        y == TransmuteToU32(b)
        s == AddCarry(x, y, 0)
    IN  [val |-> TransmuteToI32(s.val),
         overflow |-> Neg(x) = Neg(y) /\ Neg(s.val) # Neg(x)]

\* i32::overflowing_sub: a + ~b + 1 on the operands' bits; overflow = operands of
\* different sign, difference of the sign of the subtrahend
OverflowingSubI(a, b) ==
    LET x == TransmuteToU32(a)
        y == TransmuteToU32(b)
        s == AddCarry(x, BitNot(y), 1)
    IN  [val |-> TransmuteToI32(s.val),
         overflow |-> Neg(x) # Neg(y) /\ Neg(s.val) # Neg(x)]

RECURSIVE Shl(_, _)
\* u32 << n for 0 <= n < 32
Shl(a, n) ==
    IF n = 0 THEN a
    ELSE Shl(W((a[1] * 2 + a[2] \div SignBit) % Half, (a[2] * 2) % Half), n - 1)

RECURSIVE Shr(_, _)
\* u32 >> n for 0 <= n < 32: zero fill
Shr(a, n) ==
    IF n = 0 THEN a
    ELSE Shr(W(a[1] \div 2, a[2] \div 2 + (a[1] % 2) * SignBit), n - 1)

RECURSIVE Sar(_, _)
\* i32 >> n for 0 <= n < 32: sign fill (the signed upper half is halved downwards)
Sar(a, n) ==
    IF n = 0 THEN a
    ELSE Sar(W(a[1] \div 2, a[2] \div 2 + (a[1] % 2) * SignBit), n - 1)

----------------------------------------------------------------------------
(* The enumerations of emulator.rs *)

\* enum Opcode
OpReg == 0
AddI  == 8
AddIU == 9
AndI  == 12
OrI   == 13
XorI  == 14
LuI   == 15
Opcodes == {OpReg, AddI, AddIU, AndI, OrI, XorI, LuI}

\* enum Funct
Sll     == 0
SllV    == 4
Srl     == 2
SrlV    == 6
Sra     == 3
SraV    == 7
Syscall == 12
Add     == 32
AddU    == 33
Sub     == 34
SubU    == 35
And     == 36
Or      == 37
Xor     == 38
Nor     == 39
Functs == {Sll, SllV, Srl, SrlV, Sra, SraV, Syscall, Add, AddU, Sub, SubU, And, Or, Xor, Nor}

\* enum Reg: the indices used by name
Zero == 0
V0   == 2
Regs == 0 .. 31

\* enum SyscallCode
Exit == 10

\* enum InsnError, and the two other ways a call ends
Res(kind, number) == [kind |-> kind, number |-> number]
NoRes              == Res("None", Word0)
OkRes              == Res("Ok", Word0)
PanicRes           == Res("Panic", Word0)
IntegerOverflow    == Res("IntegerOverflow", Word0)
RegMutZero         == Res("RegMutZero", Word0)
InvalidOpcode(n)   == Res("InvalidOpcode", n)
InvalidFunct(n)    == Res("InvalidFunct", n)
UnsupportedSyscall(n) == Res("UnsupportedSyscall", n)
IsFault(r) == r.kind \in {"IntegerOverflow", "RegMutZero", "InvalidOpcode",
                          "InvalidFunct", "UnsupportedSyscall"}

----------------------------------------------------------------------------
(* impl Insn: field extraction from the word <<hi, lo>> *)

\* self.0 >> 26
OpcodeBits(insn) == insn[1] \div 1024
OpcodeDefaultsToReg(insn) ==
    IF OpcodeBits(insn) \in Opcodes
    THEN [ok |-> TRUE, op |-> OpcodeBits(insn)]
    ELSE [ok |-> TRUE, op |-> OpReg]
\* Opcode::try_from_primitive(self.0 >> 26)
opcode(insn) ==
    IF OpcodeBits(insn) \in Opcodes
    THEN [ok |-> TRUE, op |-> OpcodeBits(insn)]
    ELSE [ok |-> FALSE, err |-> InvalidOpcode(Small(OpcodeBits(insn)))]
\* (self.0 >> 21) & 0x1F
rs(insn) == (insn[1] \div 32) % 32
\* (self.0 >> 16) & 0x1F
rt(insn) == insn[1] % 32
\* (self.0 >> 11) & 0x1F
rd(insn) == (insn[2] \div 2048) % 32
\* (self.0 >> 6) & 0x1F
shamt(insn) == (insn[2] \div 64) % 32
\* self.0 & 0x3F
FunctBits(insn) == insn[2] % 64
\* Funct::try_from_primitive(self.0 & 0x3F)
funct(insn) ==
    IF FunctBits(insn) \in Functs
    THEN [ok |-> TRUE, f |-> FunctBits(insn)]
    ELSE [ok |-> FALSE, err |-> InvalidFunct(Small(FunctBits(insn)))]
\* self.0 & 0xFFFF
du(insn) == W(0, insn[2])
\* (self.0 & 0xFFFF) | 0xFFFF0000, seen as i32
di(insn) == TransmuteToI32(W(HalfMax, insn[2]))

\* SyscallCode::try_from_primitive(n).map_err(|e| UnsupportedSyscall(e.number))
SyscallCodeTryFrom(n) ==
    IF n = Small(Exit)
    THEN [ok |-> TRUE, code |-> Exit]
    ELSE [ok |-> FALSE, err |-> UnsupportedSyscall(n)]

----------------------------------------------------------------------------
(* impl Computer: the register accessors *)

\* self.regs[reg as usize]
ru(rg, reg) == rg[reg]
\* transmute(self.regs[reg as usize]): the same bits, read as i32
ri(rg, reg) == TransmuteToI32(rg[reg])

RuMutNoZeroCheck(reg) == [ok |-> TRUE, reg |-> reg]
\* Err(RegMutZero) for Reg::Zero, else a reference to the register
ru_mut(reg) ==
    IF reg = Zero THEN [ok |-> FALSE, err |-> RegMutZero]
    ELSE [ok |-> TRUE, reg |-> reg]

\* Err(RegMutZero) for Reg::Zero, else a reference to the register seen as i32
ri_mut(reg) ==
    IF reg = Zero THEN [ok |-> FALSE, err |-> RegMutZero]
    ELSE [ok |-> TRUE, reg |-> reg]

----------------------------------------------------------------------------
(* Computer::try_handle_insn: the ways one call ends.  regs is the register *)
(* file the call leaves, adv says whether `self.pc += 1` was reached, halt  *)
(* whether `*exit = true` was executed.                                     *)

Continue(rg)   == [res |-> OkRes, regs |-> rg, adv |-> TRUE, halt |-> FALSE]
Halt(rg)       == [res |-> OkRes, regs |-> rg, adv |-> TRUE, halt |-> TRUE]
Raise(err, rg) == [res |-> err, regs |-> rg, adv |-> FALSE, halt |-> FALSE]
Abort(rg)      == [res |-> PanicRes, regs |-> rg, adv |-> FALSE, halt |-> FALSE]

\* `*self.ru_mut(reg)? = val`: the value is computed first, then the place
AssignU(rg, reg, val) ==
    LET m == ru_mut(reg)
    IN  IF m.ok THEN Continue([rg EXCEPT ![m.reg] = val]) ELSE Raise(m.err, rg)

\* `*self.ri_mut(reg)? = val`
AssignI(rg, reg, val) ==
    LET m == ri_mut(reg)
    IN  IF m.ok THEN Continue([rg EXCEPT ![m.reg] = TransmuteToU32(val)])
        ELSE Raise(m.err, rg)

\* `*self.ri_mut(reg)? = val; if overflow { return Err(IntegerOverflow) }`
AssignIThenCheck(rg, reg, r) ==
    LET m == ri_mut(reg)
    IN  IF ~m.ok THEN Raise(m.err, rg)
        ELSE IF r.overflow
             THEN Raise(IntegerOverflow, [rg EXCEPT ![m.reg] = TransmuteToU32(r.val)])
        ELSE Continue([rg EXCEPT ![m.reg] = TransmuteToU32(r.val)])

\* `*self.ru_mut(reg)? = val; if overflow { return Err(IntegerOverflow) }`
AssignUThenCheck(rg, reg, r) ==
    LET m == ru_mut(reg)
    IN  IF ~m.ok THEN Raise(m.err, rg)
        ELSE IF r.overflow THEN Raise(IntegerOverflow, [rg EXCEPT ![m.reg] = r.val])
        ELSE Continue([rg EXCEPT ![m.reg] = r.val])

\* `*self.ru_mut(reg) = val` (AddU, SubU): the Result is used without `?`.
\* With a register behind it the value is stored.  For Reg::Zero there is no
\* register behind it and the source does not say what becomes of the Err:
\* it is propagated, or the call aborts on it, or it is dropped.
AssignUNoPropagate(rg, reg, val) ==
    LET m == ru_mut(reg)
    IN  IF m.ok THEN {Continue([rg EXCEPT ![m.reg] = val])}
        ELSE {Raise(m.err, rg), Abort(rg), Continue(rg)}

\* the right operand of `<<` / `>>` taken from a register: an amount with bits
\* above the low five set overflows the shift, which panics when overflow checks
\* are compiled in and otherwise uses the low five bits
ShiftAmount(amt, checks) ==
    IF amt[1] = 0 /\ amt[2] < 32 THEN [ok |-> TRUE, n |-> amt[2]]
    ELSE IF checks THEN [ok |-> FALSE, n |-> 0]
    ELSE [ok |-> TRUE, n |-> amt[2] % 32]

HandleSyscallA0(rg) ==
    LET code == SyscallCodeTryFrom(ru(rg, 4))
    IN  IF code.ok THEN Halt(rg) ELSE Raise(code.err, rg)
\* Funct::Syscall arm
HandleSyscall(rg) ==
    LET code == SyscallCodeTryFrom(ru(rg, V0))
    IN  IF code.ok THEN Halt(rg) ELSE Raise(code.err, rg)

\* Opcode::Reg arm
HandleReg(insn, rg, checks) ==
    LET fn == funct(insn)
        s  == rs(insn)
        t  == rt(insn)
        d  == rd(insn)
        sv == ShiftAmount(ru(rg, s), checks)
        si == ShiftAmount(ri(rg, s), checks)
    IN  IF ~fn.ok THEN {Raise(fn.err, rg)}
        ELSE CASE fn.f = Sll  -> {AssignU(rg, d, Shl(ru(rg, t), shamt(insn)))}
               [] fn.f = SllV -> IF sv.ok THEN {AssignU(rg, d, Shl(ru(rg, t), sv.n))}
                                 ELSE {Abort(rg)}
               [] fn.f = Srl  -> {AssignU(rg, d, Shr(ru(rg, t), shamt(insn)))}
               [] fn.f = SrlV -> IF sv.ok THEN {AssignU(rg, d, Shr(ru(rg, t), sv.n))}
                                 ELSE {Abort(rg)}
               [] fn.f = Sra  -> {AssignI(rg, d, Sar(ri(rg, t), shamt(insn)))}
               [] fn.f = SraV -> IF si.ok THEN {AssignI(rg, d, Sar(ri(rg, t), si.n))}
                                 ELSE {Abort(rg)}
               [] fn.f = Syscall -> {HandleSyscall(rg)}
               [] fn.f = Add  -> {AssignIThenCheck(rg, d, OverflowingAddI(ri(rg, s), ri(rg, t)))}
               [] fn.f = AddU -> AssignUNoPropagate(rg, d, OverflowingAddU(ru(rg, s), ru(rg, t)).val)
               [] fn.f = Sub  -> {AssignIThenCheck(rg, d, OverflowingSubI(ri(rg, s), ri(rg, t)))}
               [] fn.f = SubU -> AssignUNoPropagate(rg, d, OverflowingSubU(ru(rg, s), ru(rg, t)).val)
               [] fn.f = And  -> {AssignU(rg, d, BitAnd(ru(rg, s), ru(rg, t)))}
               [] fn.f = Or   -> {AssignU(rg, d, BitOr(ru(rg, s), ru(rg, t)))}
               [] fn.f = Xor  -> {AssignU(rg, d, BitXor(ru(rg, s), ru(rg, t)))}
               [] fn.f = Nor  -> {AssignU(rg, d, BitNot(BitOr(ru(rg, s), ru(rg, t))))}

LuiValueNoShift(insn) == du(insn)
\* insn.du() << 16
LuiValue(insn) == Shl(du(insn), 16)

\* the immediate arms; the destination is insn.rd()
HandleImm(op, insn, rg) ==
    LET s == rs(insn)
        d == rd(insn)
    IN  CASE op = AddI  -> AssignIThenCheck(rg, d, OverflowingAddI(ri(rg, s), di(insn)))
          [] op = AddIU -> AssignUThenCheck(rg, d, OverflowingAddU(ru(rg, s), du(insn)))
          [] op = AndI  -> AssignU(rg, d, BitAnd(ru(rg, s), du(insn)))
          [] op = OrI   -> AssignU(rg, d, BitOr(ru(rg, s), du(insn)))
          [] op = XorI  -> AssignU(rg, d, BitXor(ru(rg, s), du(insn)))
          [] op = LuI   -> AssignU(rg, d, LuiValue(insn))

\* the set of ways try_handle_insn(insn, exit) can end from register file rg
TryHandleInsn(insn, rg, checks) ==
    LET o == opcode(insn)
    IN  IF ~o.ok THEN {Raise(o.err, rg)}
        ELSE IF o.op = OpReg THEN HandleReg(insn, rg, checks)
        ELSE {HandleImm(o.op, insn, rg)}

PcNextBytes(p) == p + 4
\* self.pc += 1
PcNext(p) == p + 1

----------------------------------------------------------------------------
(* The inputs: encoded instruction words and initial register files *)

\* a register-type word: opcode 0 | rs | rt | rd | shamt | funct
RWord(s, t, d, sh, f) == W(s * 32 + t, d * 2048 + sh * 64 + f)
\* an immediate-type word: opcode | rs | rt | 16-bit immediate
IWord(op, s, t, imm) == W(op * 1024 + s * 32 + t, imm)

IntMax == W(32767, 65535)   \* 0x7FFFFFFF
IntMin == W(32768, 0)       \* 0x80000000
AllOnes == W(65535, 65535)  \* 0xFFFFFFFF
Marker == W(4660, 22136)    \* 0x12345678

\* a register file: v0 in V0, a in T0 (8), b in T1 (9), a marker in T2 (10)
RegFile(v0, a, b) ==
    [r \in Regs |-> CASE r = V0 -> v0
                      [] r = 8  -> a
                      [] r = 9  -> b
                      [] r = 10 -> Marker
                      [] OTHER  -> Word0]

\* function selectors that match no Funct, opcodes that match no Opcode
BadFuncts == {1, 63}
BadOpcodes == {1, 63}

\* the words of the single-instruction initial states
RWords ==
    {RWord(s, t, d, sh, f) :
        s \in {0, 8}, t \in {0, 9}, d \in {0, 8, 10}, sh \in {0, 1, 31},
        f \in Functs \cup BadFuncts}
Imms == {0, 1, 4660, 20485, 32767, 32768, 65535}
IWords ==
    {IWord(op, s, t, imm) :
        op \in (Opcodes \ {OpReg}) \cup BadOpcodes, s \in {0, 8}, t \in {0, 9},
        imm \in Imms}
AllWords == RWords \cup IWords

\* the register values of the single-instruction initial states
Vals == {Word0, Small(1), Small(32), IntMax, IntMin, AllOnes}
InsnRegs == {RegFile(v0, a, b) : v0 \in {Small(Exit), Small(4), IntMin}, a \in Vals, b \in Vals}

\* the words of the run-level initial states
CoreWords ==
    { RWord(0, 0, 0, 0, Syscall),
      RWord(8, 9, 10, 0, Add),
      RWord(9, 8, 10, 0, Sub),
      RWord(8, 9, 10, 0, AddU),
      RWord(8, 9, 0, 0, AddU),
      RWord(0, 0, 0, 0, Sll),
      RWord(8, 9, 10, 0, SllV),
      RWord(8, 9, 10, 0, Nor),
      RWord(0, 0, 0, 0, 1),
      IWord(AndI, 8, 0, 4111),
      IWord(AddI, 8, 0, 20485),
      IWord(63, 0, 0, 0) }
CoreRegs ==
    {RegFile(v0, ab[1], ab[2]) :
        v0 \in {Small(Exit), Small(4)},
        ab \in {<<IntMax, Small(1)>>, <<Small(10), IntMin>>, <<Small(32), Small(3)>>}}

\* the sequences over S of length at most n
SeqsUpTo(S, n) == UNION {[1 .. k -> S] : k \in 0 .. n}

----------------------------------------------------------------------------
(* The state machine *)

NoCall == [idx |-> 0, insn |-> Word0, regs |-> RegFile(Word0, Word0, Word0),
           pc |-> 0, exit |-> FALSE, res |-> NoRes]

\* a Computer with its program loaded, registers set, pc = 0, about to run
InitWith(prog, rg) ==
    /\ program = prog
    /\ regs = rg
    /\ pc = 0
    /\ mem = <<>>
    /\ exit = FALSE
    /\ ctl = "loop"
    /\ result = NoRes
    /\ overflow_checks \in BOOLEAN
    /\ executed = <<>>
    /\ last = NoCall

Init ==
    \/ \E prog \in SeqsUpTo(CoreWords, MaxLen), rg \in CoreRegs : InitWith(prog, rg)
    \/ \E w \in AllWords, rg \in InsnRegs : InitWith(<<w>>, rg)

LoopCondIgnoreExit == pc < Len(program)
LoopCondOffByOne == pc + 1 < Len(program) /\ ~exit
\* while self.pc < self.program.len() && !exit
LoopCond == pc < Len(program) /\ ~exit

AfterCallSwallow(res) == IF res = PanicRes THEN "panicked" ELSE "loop"
\* what run does with the result of try_handle_insn: `?` returns a fault to the
\* caller, a panic unwinds, Ok goes round the loop again
AfterCall(res) ==
    IF IsFault(res) THEN "returned" ELSE IF res = PanicRes THEN "panicked" ELSE "loop"

\* one iteration of the loop of run: self.try_handle_insn(self.program[self.pc], &mut exit)?
Step ==
    /\ ctl = "loop"
    /\ LoopCond
    /\ \E o \in TryHandleInsn(program[pc + 1], regs, overflow_checks) :
        /\ regs' = o.regs
        /\ pc' = IF o.adv THEN PcNext(pc) ELSE pc
        /\ exit' = (exit \/ o.halt)
        /\ ctl' = AfterCall(o.res)
        /\ result' = IF AfterCall(o.res) = "loop" THEN result ELSE o.res
        /\ executed' = Append(executed, pc)
        /\ last' = [idx |-> pc, insn |-> program[pc + 1], regs |-> regs, pc |-> pc,
                    exit |-> exit, res |-> o.res]
    /\ UNCHANGED <<program, mem, overflow_checks>>

\* the loop condition is false: Ok(())
Return ==
    /\ ctl = "loop"
    /\ ~LoopCond
    /\ ctl' = "returned"
    /\ result' = OkRes
    /\ UNCHANGED <<regs, program, pc, mem, exit, overflow_checks, executed, last>>

Next == Step \/ Return

Spec == Init /\ [][Next]_vars

TypeOK ==
    /\ regs \in [Regs -> (0 .. HalfMax) \X (0 .. HalfMax)]
    /\ pc \in 0 .. Len(program)
    /\ ctl \in {"loop", "returned", "panicked"}
    /\ exit \in BOOLEAN

----------------------------------------------------------------------------
(* Properties *)

\* a call of try_handle_insn has been made
Called == last.res # NoRes
\* the last call decoded a register-type word with function selector f
LastReg(f) ==
    Called /\ OpcodeBits(last.insn) = OpReg /\ FunctBits(last.insn) = f
\* the last call decoded an immediate-type word
LastImm == Called /\ OpcodeBits(last.insn) \in Opcodes \ {OpReg}
\* the last call decoded an instruction that writes a destination register
LastWrites ==
    \/ LastImm
    \/ Called /\ OpcodeBits(last.insn) = OpReg /\ FunctBits(last.insn) \in Functs \ {Syscall}
\* the last call produced Halt
LastHalted == Called /\ exit /\ ~last.exit

\* C1: register 0 holds 0 in every reachable state of a run started with
\* register 0 = 0, whatever instruction words were executed and however they ended.
C1_ZeroRegisterIsZero == regs[Zero] = Word0

\* an add-unsigned with destination register 0 was executed as the second instruction
C1_Witness ==
    /\ LastReg(AddU) /\ rd(last.insn) = Zero
    /\ Len(executed) = 2
    /\ last.regs[rs(last.insn)] # Word0

\* C2: a validly encoded instruction that writes a destination register, with
\* destination register 0, fails with RegMutZero and leaves registers and pc unchanged.
C2_ZeroDestinationFaults ==
    (LastWrites /\ rd(last.insn) = Zero)
        => (last.res = RegMutZero /\ regs = last.regs /\ pc = last.pc)

\* C3: an instruction that returns a fault leaves the register file as it was
\* before the instruction.
C3_FaultLeavesRegisters == (Called /\ IsFault(last.res)) => regs = last.regs

\* the upper half of a word as a signed number of units of 2^16
SignedHi(a) == IF a[1] >= SignBit THEN a[1] - Half ELSE a[1]
\* the mathematical signed sum a + b = hi * 2^16 + lo, with 0 <= lo < 2^16
MathSum(a, b) ==
    [hi |-> SignedHi(a) + SignedHi(b) + ((a[2] + b[2]) \div Half), lo |-> (a[2] + b[2]) % Half]
\* the mathematical signed difference a - b, likewise
MathDiff(a, b) ==
    [hi |-> SignedHi(a) - SignedHi(b) + ((a[2] - b[2]) \div Half), lo |-> (a[2] - b[2]) % Half]
\* hi * 2^16 + lo lies in [-2^31, 2^31 - 1]
InI32(m) == -SignBit <= m.hi /\ m.hi < SignBit
\* hi * 2^16 + lo modulo 2^32, as a word
Mod32(m) == W(m.hi % Half, m.lo)
\* the register operands of the last call, before it
LastRs == last.regs[rs(last.insn)]
LastRt == last.regs[rt(last.insn)]
\* the checked operation with mathematical result m behaved as claimed
CheckedAsMath(m) ==
    IF InI32(m) THEN last.res = OkRes /\ regs[rd(last.insn)] = Mod32(m)
    ELSE last.res = IntegerOverflow
\* the unsigned operation with mathematical result m behaved as claimed
WrappedAsMath(m) == last.res = OkRes /\ regs[rd(last.insn)] = Mod32(m)

\* C4: with a non-zero destination, add (subtract) fails with IntegerOverflow
\* exactly when the mathematical signed sum (difference) is outside
\* [-2^31, 2^31 - 1] and otherwise succeeds with it; add-unsigned and
\* subtract-unsigned never fault and write the sum (difference) modulo 2^32.
C4_AddSubOverflow ==
    (Called /\ rd(last.insn) # Zero) =>
        /\ LastReg(Add)  => CheckedAsMath(MathSum(LastRs, LastRt))
        /\ LastReg(Sub)  => CheckedAsMath(MathDiff(LastRs, LastRt))
        /\ LastReg(AddU) => WrappedAsMath(MathSum(LastRs, LastRt))
        /\ LastReg(SubU) => WrappedAsMath(MathDiff(LastRs, LastRt))

\* add of 0x7FFFFFFF and 1 into a non-zero destination has faulted
C4_Witness ==
    /\ LastReg(Add) /\ rd(last.insn) # Zero
    /\ LastRs = IntMax /\ LastRt = Small(1)
    /\ last.res = IntegerOverflow

\* C5: a syscall executed with V0 = 10 leaves all registers as they were, it is
\* the last instruction executed, and the run, once it has returned, returned Ok.
C5_ExitSyscallHalts ==
    /\ (LastReg(Syscall) /\ last.regs[V0] = Small(Exit)) =>
            (LastHalted /\ last.res = OkRes /\ regs = last.regs)
    /\ exit =>
            /\ LastHalted /\ LastReg(Syscall)
            /\ executed[Len(executed)] = last.idx
            /\ ctl \in {"loop", "returned"}
            /\ ctl = "returned" => result = OkRes

\* the run returned after an exit syscall that had instructions after it
C5_Witness ==
    /\ exit /\ ctl = "returned" /\ result = OkRes
    /\ last.idx + 1 < Len(program)

\* C6: a syscall executed with V0 # 10 fails with UnsupportedSyscall carrying
\* the value of V0, whatever its rs/rt/rd/shamt fields are, and leaves registers
\* and program counter unchanged.
C6_UnsupportedSyscall ==
    (LastReg(Syscall) /\ last.regs[V0] # Small(Exit)) =>
        /\ last.res = UnsupportedSyscall(last.regs[V0])
        /\ regs = last.regs
        /\ pc = last.pc
        /\ ~exit

\* a syscall word with rd = register 0 and other fields set failed on V0 = 0x80000000
C6_Witness ==
    /\ LastReg(Syscall) /\ last.regs[V0] = IntMin
    /\ rd(last.insn) = Zero /\ rs(last.insn) = 8 /\ shamt(last.insn) = 31
    /\ last.res.kind = "UnsupportedSyscall"

\* C7: after the run ended by Halt the program counter equals the index of the
\* halting syscall instruction.
C7_HaltKeepsPc == (LastHalted /\ ctl = "returned") => pc = last.idx

\* C8: an instruction that ends without fault and without Halt advances the
\* program counter by exactly one; no instruction decreases it or moves it by
\* more than one.
C8_PcAdvancesByOne ==
    Called =>
        /\ pc \in {last.pc, last.pc + 1}
        /\ (last.res = OkRes /\ ~LastHalted) => pc = last.pc + 1

\* the third instruction of a program ended Ok without Halt
C8_Witness ==
    /\ Called /\ last.res = OkRes /\ ~LastHalted
    /\ last.pc = 2 /\ pc = 3

\* C9: once the instruction at index k returns a fault, run has returned that
\* fault, no instruction at a greater index was executed, nothing can change the
\* state any more, and the program counter equals k.
C9_FirstFaultStops ==
    (Called /\ IsFault(last.res)) =>
        /\ ctl = "returned" /\ result = last.res
        /\ pc = last.idx
        /\ \A i \in 1 .. Len(executed) : executed[i] <= last.idx
        /\ ~ENABLED Next

\* the second instruction faulted and a third one was left unexecuted
C9_Witness ==
    /\ Called /\ IsFault(last.res) /\ ctl = "returned"
    /\ last.idx = 1 /\ Len(program) = 3

\* C10: a run that returns without a fault and without a Halt returns Ok with
\* every instruction executed exactly once in index order and the program
\* counter at the program length; the program counter never passes the end and
\* no fault is returned from there.
C10_RunsToEnd ==
    /\ pc <= Len(program)
    /\ (ctl = "returned" /\ ~exit /\ ~IsFault(result)) =>
            /\ result = OkRes
            /\ pc = Len(program)
            /\ executed = [i \in 1 .. Len(program) |-> i - 1]
    /\ (ctl = "returned" /\ IsFault(result)) => pc < Len(program)

\* a program of at least two instructions ran to its end
C10_Witness ==
    /\ ctl = "returned" /\ result = OkRes /\ ~exit
    /\ Len(program) >= 2 /\ Len(executed) = Len(program)

\* C11: a word whose opcode bits are no known opcode fails with InvalidOpcode
\* carrying those bits, a word with opcode 0 whose funct bits are no known funct
\* fails with InvalidFunct carrying those bits (also with rd = register 0); in
\* both cases registers, memory and program counter are unchanged.
C11_UndecodableWordFaults ==
    /\ (Called /\ OpcodeBits(last.insn) \notin Opcodes) =>
            /\ last.res = InvalidOpcode(Small(OpcodeBits(last.insn)))
            /\ regs = last.regs /\ mem = <<>> /\ pc = last.pc
    /\ (Called /\ OpcodeBits(last.insn) = OpReg /\ FunctBits(last.insn) \notin Functs) =>
            /\ last.res = InvalidFunct(Small(FunctBits(last.insn)))
            /\ regs = last.regs /\ mem = <<>> /\ pc = last.pc

\* a word with opcode bits 111111 and immediate bits that would name a
\* destination (15:11 = 01010) was executed and the run returned
C11_Witness ==
    /\ Called /\ OpcodeBits(last.insn) = 63 /\ rd(last.insn) = 10
    /\ last.res.kind = "InvalidOpcode" /\ ctl = "returned"

\* the 16-bit immediate of the last call, and its sign extension (bit 15
\* replicated into bits [31:16]) as a 32-bit word
LastImm16 == last.insn[2]
SignExtend16(imm) == IF imm < SignBit THEN W(0, imm) ELSE W(HalfMax, imm)

\* C12: the signed datum of add-immediate is the sign extension of the 16-bit
\* immediate (imm if imm < 32768, else imm - 65536), and add-immediate with a
\* non-zero destination that succeeds leaves rs + sign_extend(imm) there.
C12_ImmediateSignExtended ==
    (Called /\ OpcodeBits(last.insn) = AddI) =>
        /\ di(last.insn) = TransmuteToI32(SignExtend16(LastImm16))
        /\ (rd(last.insn) # Zero /\ last.res = OkRes) =>
                regs[rd(last.insn)] = Mod32(MathSum(LastRs, SignExtend16(LastImm16)))

\* C13: add-immediate-unsigned with a non-zero destination writes
\* (rs + sign_extend(imm)) mod 2^32, for every rs and every immediate.
C13_AddIUSignExtended ==
    (Called /\ OpcodeBits(last.insn) = AddIU /\ rd(last.insn) # Zero) =>
        /\ last.res = OkRes
        /\ regs[rd(last.insn)] = Mod32(MathSum(LastRs, SignExtend16(LastImm16)))

LastShift5 == LastRs[2] % 32

\* C15: a variable shift with a non-zero destination completes without fault or
\* abort for every value of rs and writes rt shifted by rs mod 32, zero-filling
\* for the logical shifts and sign-filling for the arithmetic shift.
C15_VariableShiftMasked ==
    (Called /\ rd(last.insn) # Zero) =>
        /\ LastReg(SllV) =>
                (last.res = OkRes /\ regs[rd(last.insn)] = Shl(LastRt, LastShift5))
        /\ LastReg(SrlV) =>
                (last.res = OkRes /\ regs[rd(last.insn)] = Shr(LastRt, LastShift5))
        /\ LastReg(SraV) =>
                (last.res = OkRes /\ regs[rd(last.insn)] =
                    TransmuteToU32(Sar(TransmuteToI32(LastRt), LastShift5)))

----------------------------------------------------------------------------
(* The pre-decoded engine: struct Cpu of lib.rs *)

\* enum InsnError of lib.rs
IntegerOverflowException == Res("IntegerOverflowException", Word0)
DstRegZeroError          == Res("DstRegZeroError", Word0)

\* enum RegFunc: the selectors of Funct without Syscall
RegFuncs == Functs \ {Syscall}
\* enum ImmOpcode
ImmOpcodes == Opcodes \ {OpReg}

\* struct RegInsn, struct ImmInsn, enum Insn
RegInsn(s, t, d, sh, f) ==
    [tag |-> "Reg", rs |-> s, rt |-> t, rd |-> d, shamt |-> sh, funct |-> f]
ImmInsn(op, s, t, data) ==
    [tag |-> "Imm", opcode |-> op, rs |-> s, rt |-> t, data |-> data]

\* how a call of Cpu::try_handle_insn ends: Ok(()), Err(e), or a panic
CpuOk(rg)       == [res |-> OkRes, regs |-> rg]
CpuErr(err, rg) == [res |-> err, regs |-> rg]
CpuPanic(rg)    == [res |-> PanicRes, regs |-> rg]

\* `*rd_u = val` / `*rt_u = val`
CpuStoreU(rg, reg, val) == [rg EXCEPT ![reg] = val]
\* `*rd_i = val` / `*rt_i = val`: through the transmuted reference
CpuStoreI(rg, reg, val) == [rg EXCEPT ![reg] = TransmuteToU32(val)]

\* `*rd_i = val; if overflow { return Err(IntegerOverflowException) }`
CpuStoreIThenCheck(rg, reg, r) ==
    IF r.overflow THEN CpuErr(IntegerOverflowException, CpuStoreI(rg, reg, r.val))
    ELSE CpuOk(CpuStoreI(rg, reg, r.val))
\* `*rt_u = val; if overflow { return Err(IntegerOverflowException) }`
CpuStoreUThenCheck(rg, reg, r) ==
    IF r.overflow THEN CpuErr(IntegerOverflowException, CpuStoreU(rg, reg, r.val))
    ELSE CpuOk(CpuStoreU(rg, reg, r.val))

\* Cpu::try_handle_insn_reg
CpuTryHandleInsnReg(insn, rg, checks) ==
    LET d    == insn.rd
        rs_u == rg[insn.rs]
        rt_u == rg[insn.rt]
        rs_i == TransmuteToI32(rs_u)
        rt_i == TransmuteToI32(rt_u)
        sh   == ShiftAmount(Small(insn.shamt), checks)
        sv   == ShiftAmount(rs_u, checks)
        si   == ShiftAmount(rs_i, checks)
        f    == insn.funct
    IN  IF d = Zero THEN CpuErr(DstRegZeroError, rg)
        ELSE CASE f = Sll  -> IF sh.ok THEN CpuOk(CpuStoreU(rg, d, Shl(rt_u, sh.n)))
                              ELSE CpuPanic(rg)
               [] f = SllV -> IF sv.ok THEN CpuOk(CpuStoreU(rg, d, Shl(rt_u, sv.n)))
                              ELSE CpuPanic(rg)
               [] f = Srl  -> IF sh.ok THEN CpuOk(CpuStoreU(rg, d, Shr(rt_u, sh.n)))
                              ELSE CpuPanic(rg)
               [] f = SrlV -> IF sv.ok THEN CpuOk(CpuStoreU(rg, d, Shr(rt_u, sv.n)))
                              ELSE CpuPanic(rg)
               [] f = Sra  -> IF sh.ok THEN CpuOk(CpuStoreI(rg, d, Sar(rt_i, sh.n)))
                              ELSE CpuPanic(rg)
               [] f = SraV -> IF si.ok THEN CpuOk(CpuStoreI(rg, d, Sar(rt_i, si.n)))
                              ELSE CpuPanic(rg)
               [] f = Add  -> CpuStoreIThenCheck(rg, d, OverflowingAddI(rs_i, rt_i))
               [] f = AddU -> CpuOk(CpuStoreU(rg, d, OverflowingAddU(rs_u, rt_u).val))
               [] f = Sub  -> CpuStoreIThenCheck(rg, d, OverflowingSubI(rs_i, rt_i))
               [] f = SubU -> CpuOk(CpuStoreU(rg, d, OverflowingSubU(rs_u, rt_u).val))
               [] f = And  -> CpuOk(CpuStoreU(rg, d, BitAnd(rs_u, rt_u)))
               [] f = Or   -> CpuOk(CpuStoreU(rg, d, BitOr(rs_u, rt_u)))
               [] f = Xor  -> CpuOk(CpuStoreU(rg, d, BitXor(rs_u, rt_u)))
               [] f = Nor  -> CpuOk(CpuStoreU(rg, d, BitNot(BitOr(rs_u, rt_u))))

\* `insn.data as u32`, `insn.data as i32`: data is a u16, both zero-extend
DataAsU32(data) == W(0, data)
DataAsI32(data) == W(0, data)

\* Cpu::try_handle_insn_imm: the destination is insn.rt, written unconditionally
CpuTryHandleInsnImm(insn, rg) ==
    LET d    == insn.rt
        rs_u == rg[insn.rs]
        rs_i == TransmuteToI32(rs_u)
        op   == insn.opcode
    IN  CASE op = AddI  -> CpuStoreIThenCheck(rg, d, OverflowingAddI(rs_i, DataAsI32(insn.data)))
          [] op = AddIU -> CpuStoreUThenCheck(rg, d, OverflowingAddU(rs_u, DataAsU32(insn.data)))
          [] op = AndI  -> CpuOk(CpuStoreU(rg, d, BitAnd(rs_u, DataAsU32(insn.data))))
          [] op = OrI   -> CpuOk(CpuStoreU(rg, d, BitOr(rs_u, DataAsU32(insn.data))))
          [] op = XorI  -> CpuOk(CpuStoreU(rg, d, BitXor(rs_u, DataAsU32(insn.data))))
          [] op = LuI   -> CpuOk(CpuStoreU(rg, d, Shl(DataAsU32(insn.data), 16)))

\* Cpu::try_handle_insn
CpuTryHandleInsn(insn, rg, checks) ==
    IF insn.tag = "Reg" THEN CpuTryHandleInsnReg(insn, rg, checks)
    ELSE CpuTryHandleInsnImm(insn, rg)

\* the instructions of the single-call initial states
CpuRegInsns ==
    {RegInsn(s, t, d, sh, f) :
        s \in {0, 8}, t \in {0, 9}, d \in {0, 8, 10}, sh \in {0, 1, 31}, f \in RegFuncs}
CpuImmInsns ==
    {ImmInsn(op, s, t, data) :
        op \in ImmOpcodes, s \in {0, 8}, t \in {0, 9, 10}, data \in Imms}
\* the instructions of the initial states with several calls
CpuCoreInsns ==
    { RegInsn(8, 9, 10, 0, Add),
      RegInsn(9, 8, 10, 0, Sub),
      RegInsn(8, 9, 0, 0, AddU),
      RegInsn(8, 9, 10, 0, SllV),
      RegInsn(0, 10, 8, 1, Sra),
      RegInsn(0, 0, 0, 0, Sll),
      ImmInsn(OrI, 8, 9, 4660),
      ImmInsn(AddI, 9, 10, 65535),
      ImmInsn(LuI, 0, 8, 32768),
      ImmInsn(AndI, 8, 0, 0),
      ImmInsn(OrI, 8, 0, 1) }

NoCpuCall == [idx |-> 0, insn |-> RegInsn(0, 0, 0, 0, Sll),
              regs |-> RegFile(Word0, Word0, Word0), pc |-> 0, exit |-> FALSE,
              res |-> NoRes]

\* a Cpu with registers set and pc = 0, and the instructions its caller will pass
CpuInitWith(insns, rg) ==
    /\ program = insns
    /\ regs = rg
    /\ pc = 0
    /\ mem = <<>>
    /\ exit = FALSE
    /\ ctl = "cpu"
    /\ result = NoRes
    /\ overflow_checks \in BOOLEAN
    /\ executed = <<>>
    /\ last = NoCpuCall

CpuInit ==
    \/ \E insns \in SeqsUpTo(CpuCoreInsns, MaxLen), rg \in CoreRegs : CpuInitWith(insns, rg)
    \/ \E i \in CpuRegInsns \cup CpuImmInsns, rg \in InsnRegs : CpuInitWith(<<i>>, rg)

\* the caller passes its next instruction to Cpu::try_handle_insn; it goes on
\* after an Err, and a panic ends it
CpuCall ==
    /\ ctl = "cpu"
    /\ Len(executed) < Len(program)
    /\ LET insn == program[Len(executed) + 1]
           o    == CpuTryHandleInsn(insn, regs, overflow_checks)
       IN  /\ regs' = o.regs
           /\ result' = o.res
           /\ ctl' = IF o.res = PanicRes THEN "panicked" ELSE "cpu"
           /\ executed' = Append(executed, Len(executed))
           /\ last' = [idx |-> Len(executed), insn |-> insn, regs |-> regs, pc |-> pc,
                       exit |-> exit, res |-> o.res]
    /\ UNCHANGED <<program, pc, mem, exit, overflow_checks>>

CpuNext == CpuCall

SpecCpu == CpuInit /\ [][CpuNext]_vars

----------------------------------------------------------------------------
(* Properties of the pre-decoded engine (under SpecCpu) *)

\* the destination of a decoded instruction: rd for register-type, rt for immediate-type
CpuDest(insn) == IF insn.tag = "Reg" THEN insn.rd ELSE insn.rt

\* C16: in the pre-decoded engine register 0 holds 0 after any sequence of
\* Cpu::try_handle_insn calls, and every instruction whose destination is
\* register 0 returns the destination-zero fault.
C16_CpuZeroRegister ==
    /\ regs[Zero] = Word0
    /\ (Called /\ CpuDest(last.insn) = Zero) => last.res = DstRegZeroError

----------------------------------------------------------------------------
(* Further properties of the raw-word engine (under Spec) *)

\* the two's-complement reading of a u32 v: v if v < 2^31, else v - 2^32
TwosComplement(v) == IF v[1] < SignBit THEN v ELSE W(v[1] - Half, v[2])
\* the u32 congruent to an i32 x modulo 2^32: x if x >= 0, else x + 2^32
ModuloU32(x) == IF x[1] >= 0 THEN x ELSE W(x[1] + Half, x[2])

\* the last call wrote its destination through the unsigned view (or, nor)
LastWroteUnsigned ==
    (LastReg(Or) \/ LastReg(Nor)) /\ last.res = OkRes /\ rd(last.insn) # Zero
\* the u32 it wrote
LastWrittenU ==
    IF FunctBits(last.insn) = Or THEN BitOr(LastRs, LastRt)
    ELSE BitNot(BitOr(LastRs, LastRt))
\* the last call wrote its destination through the signed view (sra)
LastWroteSigned == LastReg(Sra) /\ last.res = OkRes /\ rd(last.insn) # Zero
\* the i32 it wrote
LastWrittenI == Sar(ri(last.regs, rt(last.insn)), shamt(last.insn))

\* C17: the signed and unsigned views are the same storage: after a write of v
\* through the unsigned view of a register other than register 0, the unsigned
\* view reads v and the signed view reads the two's-complement reinterpretation
\* of v; after a write of x through the signed view, the signed view reads x and
\* the unsigned view reads x modulo 2^32.
C17_ViewsAlias ==
    /\ LastWroteUnsigned =>
            /\ ru(regs, rd(last.insn)) = LastWrittenU
            /\ ri(regs, rd(last.insn)) = TwosComplement(LastWrittenU)
    /\ LastWroteSigned =>
            /\ ri(regs, rd(last.insn)) = LastWrittenI
            /\ ru(regs, rd(last.insn)) = ModuloU32(LastWrittenI)

\* nor wrote a value with bit 31 set, which the signed view reads as negative
C17_Witness ==
    /\ LastWroteUnsigned /\ LastReg(Nor)
    /\ LastWrittenU[1] >= SignBit
    /\ ri(regs, rd(last.insn))[1] < 0

\* sra wrote a negative value through the signed view
C17_WitnessSigned == LastWroteSigned /\ LastWrittenI[1] < 0

\* C18: each loop iteration either returns a fault or strictly increases the
\* program counter, at most len(program) instructions are executed, no fetch is
\* made at an index >= len(program), and a run that has ended ended with
\* success or a fault.
C18_RunTerminates ==
    /\ Called => (IsFault(last.res) \/ pc > last.pc)
    /\ Len(executed) <= Len(program)
    /\ \A i \in 1 .. Len(executed) : executed[i] < Len(program)
    /\ ctl # "loop" => (ctl = "returned" /\ (result = OkRes \/ IsFault(result)))

\* C19: the destination of an immediate-type instruction is selected by the rt
\* field (bits [20:16]), disjoint from the immediate: no register other than rt
\* is written, and a non-zero rt is never refused as register 0, whatever the
\* immediate is.
C19_ImmDestinationIsRt ==
    LastImm =>
        /\ rt(last.insn) # Zero => last.res # RegMutZero
        /\ \A r \in Regs \ {rt(last.insn)} : regs[r] = last.regs[r]

----------------------------------------------------------------------------
(* The two engines compared (under SpecCpu) *)

\* the outcome class of a call of either engine
OutcomeClass(res) ==
    CASE res.kind = "Ok" -> "success"
      [] res.kind \in {"IntegerOverflow", "IntegerOverflowException"} -> "overflow"
      [] res.kind \in {"RegMutZero", "DstRegZeroError"} -> "zero"
      [] OTHER -> res.kind
\* the encoded word of a decoded register-type instruction
WordOf(insn) == RWord(insn.rs, insn.rt, insn.rd, insn.shamt, insn.funct)

\* C20: on a register-type instruction other than syscall, from a register
\* state with register 0 = 0, Computer::try_handle_insn on the encoded word and
\* Cpu::try_handle_insn_reg on the decoded instruction return the same outcome
\* class and leave identical register files.
C20_EnginesAgree ==
    (Called /\ last.insn.tag = "Reg" /\ last.regs[Zero] = Word0) =>
        \A o \in TryHandleInsn(WordOf(last.insn), last.regs, overflow_checks) :
            /\ OutcomeClass(o.res) = OutcomeClass(last.res)
            /\ o.regs = regs

====
